---- MODULE Spec2Model ----
(***************************************************************************)
(* Model of src/index.ts: an express server with three GET handlers that   *)
(* proxy the Google Places API.                                            *)
(*                                                                         *)
(*   /autocomplete   validates `input`, calls the autocomplete API once    *)
(*                   and reshapes the predictions (parse, filter,          *)
(*                   annotate, sort, deduplicate).                         *)
(*   /find-place     findplacefromtext, then details with the first        *)
(*   /place-details  candidate's place id.                                 *)
(*                                                                         *)
(* A JavaScript string is the sequence of its UTF-16 code units (65 is     *)
(* "A", 220 is U+00DC), so that toLowerCase, includes, trim, join and the  *)
(* template literal of the dedupe key are computed unit by unit.  The      *)
(* JavaScript value `undefined` is the sequence Undefined, which is not a  *)
(* sequence of code units.                                                 *)
(***************************************************************************)
EXTENDS Integers, Sequences, FiniteSets

VARIABLES
    pc,               \* position of the handler
    endpoint,         \* route of the request being served
    input,            \* req.query.input (autocomplete)
    inputType,        \* typeof req.query.input
    query,            \* query of /find-place and /place-details
    googleResponse,   \* googleResponse.data
    predictions,      \* terms arrays, line 117
    placeSuggestions, \* line 121
    chain,            \* intermediate array of the filter/map/sort chain
    filteredResults,  \* line 135, after the sort
    uniqueResults,    \* line 162
    findPlaceResponse,   \* findPlaceResponse.data
    upstreamCalls,    \* axios.get calls issued, in order
    responses,        \* responses sent on res, in order
    stages            \* transform stages completed, in order

vars == <<pc, endpoint, input, inputType, query, googleResponse, predictions,
          placeSuggestions, chain, filteredResults, uniqueResults,
          findPlaceResponse, upstreamCalls, responses, stages>>

----------------------------------------------------------------------------
(* Bounds and input pools *)

MaxPredictions == 2
MaxTerms == 3

\* term values the upstream service may send: "A\u00DC" and "A\u00DC|A\u00DC"
TermPool == { <<65, 220>>, <<65, 220, 124, 65, 220>> }

\* string values of the `input` query parameter that pass validation:
\* "a\u00FC", "A\u00DC|a\u00FC" and " a\u00FC"
ValidInputs == { <<97, 252>>, <<65, 220, 124, 97, 252>>, <<32, 97, 252>> }

Undefined == <<-1>>

\* string values of the `input` query parameter that are empty or blank:
\* "", " ", " \t" and "\u00A0\f"
BlankInputs == { <<>>, <<32>>, <<32, 9>>, <<160, 12>> }

\* array values of the `input` query parameter (?input=a&input=b)
ArrayInputs == { << <<97>>, <<98>> >> }

SeqsUpTo(S, n) == UNION { [1..k -> S] : k \in 0..n }

TermSeqs == SeqsUpTo(TermPool, MaxTerms)

\* a prediction object; hasTerms = FALSE is a prediction without `terms`
Predictions ==
    [hasTerms : {TRUE}, terms : TermSeqs] \cup {[hasTerms |-> FALSE, terms |-> <<>>]}

PredictionLists == SeqsUpTo(Predictions, MaxPredictions)

\* googleResponse.data of the autocomplete API
AutocompleteReplies ==
    [status : {"OK"}, predictions : PredictionLists]
        \cup [status : {"ZERO_RESULTS", "REQUEST_DENIED"}, predictions : {<<>>}]

MaxCandidates == 2

PlaceIds == {"p1", "p2"}

\* req.query.query of /find-place and /place-details with its typeof: the
\* absent parameter, and the strings '', 'undefined', 'Sydney Opera House'
Queries ==
    [type : {"string"}, value : {"", "undefined", "Sydney Opera House"}]
        \cup {[type |-> "undefined", value |-> ""]}

\* array values of the `query` parameter (?query=a&query=b)
ArrayQueries == { <<"a", "b">> }

\* findPlaceResponse.data; hasCandidates = FALSE is a reply without `candidates`
FindPlaceReplies ==
    [status : {"OK", "ZERO_RESULTS"}, hasCandidates : {TRUE},
     candidates : SeqsUpTo([place_id : PlaceIds], MaxCandidates)]
        \cup [status : {"OK", "ZERO_RESULTS"}, hasCandidates : {FALSE},
              candidates : {<<>>}]

\* placeDetailsResponse.data
PlaceDetailsReplies == [status : {"OK", "NOT_FOUND"}, result : {"r1", "r2"}]

----------------------------------------------------------------------------
(* JavaScript string and array primitives *)

Min(a, b) == IF a < b THEN a ELSE b
Max(a, b) == IF a > b THEN a ELSE b

\* <<first, last, step, delta>>: the code points first, first + step, ...,
\* last have the lower case mapping code point + delta (Unicode 17)
LowerCaseRanges == <<
    <<65,90,1,32>>, <<192,214,1,32>>, <<216,222,1,32>>, <<256,302,2,1>>,
    <<306,310,2,1>>, <<313,327,2,1>>, <<330,374,2,1>>, <<376,376,1,-121>>,
    <<377,381,2,1>>, <<385,385,1,210>>, <<386,388,2,1>>, <<390,390,1,206>>,
    <<391,391,1,1>>, <<393,394,1,205>>, <<395,395,1,1>>, <<398,398,1,79>>,
    <<399,399,1,202>>, <<400,400,1,203>>, <<401,401,1,1>>, <<403,403,1,205>>,
    <<404,404,1,207>>, <<406,406,1,211>>, <<407,407,1,209>>, <<408,408,1,1>>,
    <<412,412,1,211>>, <<413,413,1,213>>, <<415,415,1,214>>, <<416,420,2,1>>,
    <<422,422,1,218>>, <<423,423,1,1>>, <<425,425,1,218>>, <<428,428,1,1>>,
    <<430,430,1,218>>, <<431,431,1,1>>, <<433,434,1,217>>, <<435,437,2,1>>,
    <<439,439,1,219>>, <<440,440,1,1>>, <<444,444,1,1>>, <<452,452,1,2>>,
    <<453,453,1,1>>, <<455,455,1,2>>, <<456,456,1,1>>, <<458,458,1,2>>,
    <<459,475,2,1>>, <<478,494,2,1>>, <<497,497,1,2>>, <<498,500,2,1>>,
    <<502,502,1,-97>>, <<503,503,1,-56>>, <<504,542,2,1>>, <<544,544,1,-130>>,
    <<546,562,2,1>>, <<570,570,1,10795>>, <<571,571,1,1>>, <<573,573,1,-163>>,
    <<574,574,1,10792>>, <<577,577,1,1>>, <<579,579,1,-195>>, <<580,580,1,69>>,
    <<581,581,1,71>>, <<582,590,2,1>>, <<880,882,2,1>>, <<886,886,1,1>>,
    <<895,895,1,116>>, <<902,902,1,38>>, <<904,906,1,37>>, <<908,908,1,64>>,
    <<910,911,1,63>>, <<913,929,1,32>>, <<931,939,1,32>>, <<975,975,1,8>>,
    <<984,1006,2,1>>, <<1012,1012,1,-60>>, <<1015,1015,1,1>>, <<1017,1017,1,-7>>,
    <<1018,1018,1,1>>, <<1021,1023,1,-130>>, <<1024,1039,1,80>>, <<1040,1071,1,32>>,
    <<1120,1152,2,1>>, <<1162,1214,2,1>>, <<1216,1216,1,15>>, <<1217,1229,2,1>>,
    <<1232,1326,2,1>>, <<1329,1366,1,48>>, <<4256,4293,1,7264>>, <<4295,4295,1,7264>>,
    <<4301,4301,1,7264>>, <<5024,5103,1,38864>>, <<5104,5109,1,8>>, <<7305,7305,1,1>>,
    <<7312,7354,1,-3008>>, <<7357,7359,1,-3008>>, <<7680,7828,2,1>>, <<7838,7838,1,-7615>>,
    <<7840,7934,2,1>>, <<7944,7951,1,-8>>, <<7960,7965,1,-8>>, <<7976,7983,1,-8>>,
    <<7992,7999,1,-8>>, <<8008,8013,1,-8>>, <<8025,8031,2,-8>>, <<8040,8047,1,-8>>,
    <<8072,8079,1,-8>>, <<8088,8095,1,-8>>, <<8104,8111,1,-8>>, <<8120,8121,1,-8>>,
    <<8122,8123,1,-74>>, <<8124,8124,1,-9>>, <<8136,8139,1,-86>>, <<8140,8140,1,-9>>,
    <<8152,8153,1,-8>>, <<8154,8155,1,-100>>, <<8168,8169,1,-8>>, <<8170,8171,1,-112>>,
    <<8172,8172,1,-7>>, <<8184,8185,1,-128>>, <<8186,8187,1,-126>>, <<8188,8188,1,-9>>,
    <<8486,8486,1,-7517>>, <<8490,8490,1,-8383>>, <<8491,8491,1,-8262>>, <<8498,8498,1,28>>,
    <<8544,8559,1,16>>, <<8579,8579,1,1>>, <<9398,9423,1,26>>, <<11264,11311,1,48>>,
    <<11360,11360,1,1>>, <<11362,11362,1,-10743>>, <<11363,11363,1,-3814>>, <<11364,11364,1,-10727>>,
    <<11367,11371,2,1>>, <<11373,11373,1,-10780>>, <<11374,11374,1,-10749>>, <<11375,11375,1,-10783>>,
    <<11376,11376,1,-10782>>, <<11378,11378,1,1>>, <<11381,11381,1,1>>, <<11390,11391,1,-10815>>,
    <<11392,11490,2,1>>, <<11499,11501,2,1>>, <<11506,11506,1,1>>, <<42560,42604,2,1>>,
    <<42624,42650,2,1>>, <<42786,42798,2,1>>, <<42802,42862,2,1>>, <<42873,42875,2,1>>,
    <<42877,42877,1,-35332>>, <<42878,42886,2,1>>, <<42891,42891,1,1>>, <<42893,42893,1,-42280>>,
    <<42896,42898,2,1>>, <<42902,42920,2,1>>, <<42922,42922,1,-42308>>, <<42923,42923,1,-42319>>,
    <<42924,42924,1,-42315>>, <<42925,42925,1,-42305>>, <<42926,42926,1,-42308>>, <<42928,42928,1,-42258>>,
    <<42929,42929,1,-42282>>, <<42930,42930,1,-42261>>, <<42931,42931,1,928>>, <<42932,42946,2,1>>,
    <<42948,42948,1,-48>>, <<42949,42949,1,-42307>>, <<42950,42950,1,-35384>>, <<42951,42953,2,1>>,
    <<42955,42955,1,-42343>>, <<42956,42970,2,1>>, <<42972,42972,1,-42561>>, <<42997,42997,1,1>>,
    <<65313,65338,1,32>>, <<66560,66599,1,40>>, <<66736,66771,1,40>>, <<66928,66964,2,39>>,
    <<66929,66937,2,39>>, <<66941,66953,2,39>>, <<66957,66961,2,39>>, <<66965,66965,1,39>>,
    <<68736,68786,1,64>>, <<68944,68965,1,32>>, <<71840,71871,1,32>>, <<93760,93791,1,32>>,
    <<93856,93880,1,27>>, <<125184,125217,1,34>> >>

\* <<first, last>>: the Case_Ignorable code points
CaseIgnorableRanges == <<
    <<39,39>>, <<46,46>>, <<58,58>>, <<94,94>>, <<96,96>>,
    <<168,168>>, <<173,173>>, <<175,175>>, <<180,180>>, <<183,184>>,
    <<688,879>>, <<884,885>>, <<890,890>>, <<900,901>>, <<903,903>>,
    <<1155,1161>>, <<1369,1369>>, <<1375,1375>>, <<1425,1469>>, <<1471,1471>>,
    <<1473,1474>>, <<1476,1477>>, <<1479,1479>>, <<1524,1524>>, <<1536,1541>>,
    <<1552,1562>>, <<1564,1564>>, <<1600,1600>>, <<1611,1631>>, <<1648,1648>>,
    <<1750,1757>>, <<1759,1768>>, <<1770,1773>>, <<1807,1807>>, <<1809,1809>>,
    <<1840,1866>>, <<1958,1968>>, <<2027,2037>>, <<2042,2042>>, <<2045,2045>>,
    <<2070,2093>>, <<2137,2139>>, <<2184,2184>>, <<2192,2193>>, <<2199,2207>>,
    <<2249,2306>>, <<2362,2362>>, <<2364,2364>>, <<2369,2376>>, <<2381,2381>>,
    <<2385,2391>>, <<2402,2403>>, <<2417,2417>>, <<2433,2433>>, <<2492,2492>>,
    <<2497,2500>>, <<2509,2509>>, <<2530,2531>>, <<2558,2558>>, <<2561,2562>>,
    <<2620,2620>>, <<2625,2626>>, <<2631,2632>>, <<2635,2637>>, <<2641,2641>>,
    <<2672,2673>>, <<2677,2677>>, <<2689,2690>>, <<2748,2748>>, <<2753,2757>>,
    <<2759,2760>>, <<2765,2765>>, <<2786,2787>>, <<2810,2815>>, <<2817,2817>>,
    <<2876,2876>>, <<2879,2879>>, <<2881,2884>>, <<2893,2893>>, <<2901,2902>>,
    <<2914,2915>>, <<2946,2946>>, <<3008,3008>>, <<3021,3021>>, <<3072,3072>>,
    <<3076,3076>>, <<3132,3132>>, <<3134,3136>>, <<3142,3144>>, <<3146,3149>>,
    <<3157,3158>>, <<3170,3171>>, <<3201,3201>>, <<3260,3260>>, <<3263,3263>>,
    <<3270,3270>>, <<3276,3277>>, <<3298,3299>>, <<3328,3329>>, <<3387,3388>>,
    <<3393,3396>>, <<3405,3405>>, <<3426,3427>>, <<3457,3457>>, <<3530,3530>>,
    <<3538,3540>>, <<3542,3542>>, <<3633,3633>>, <<3636,3642>>, <<3654,3662>>,
    <<3761,3761>>, <<3764,3772>>, <<3782,3782>>, <<3784,3790>>, <<3864,3865>>,
    <<3893,3893>>, <<3895,3895>>, <<3897,3897>>, <<3953,3966>>, <<3968,3972>>,
    <<3974,3975>>, <<3981,3991>>, <<3993,4028>>, <<4038,4038>>, <<4141,4144>>,
    <<4146,4151>>, <<4153,4154>>, <<4157,4158>>, <<4184,4185>>, <<4190,4192>>,
    <<4209,4212>>, <<4226,4226>>, <<4229,4230>>, <<4237,4237>>, <<4253,4253>>,
    <<4348,4348>>, <<4957,4959>>, <<5906,5908>>, <<5938,5939>>, <<5970,5971>>,
    <<6002,6003>>, <<6068,6069>>, <<6071,6077>>, <<6086,6086>>, <<6089,6099>>,
    <<6103,6103>>, <<6109,6109>>, <<6155,6159>>, <<6211,6211>>, <<6277,6278>>,
    <<6313,6313>>, <<6432,6434>>, <<6439,6440>>, <<6450,6450>>, <<6457,6459>>,
    <<6679,6680>>, <<6683,6683>>, <<6742,6742>>, <<6744,6750>>, <<6752,6752>>,
    <<6754,6754>>, <<6757,6764>>, <<6771,6780>>, <<6783,6783>>, <<6823,6823>>,
    <<6832,6877>>, <<6880,6891>>, <<6912,6915>>, <<6964,6964>>, <<6966,6970>>,
    <<6972,6972>>, <<6978,6978>>, <<7019,7027>>, <<7040,7041>>, <<7074,7077>>,
    <<7080,7081>>, <<7083,7085>>, <<7142,7142>>, <<7144,7145>>, <<7149,7149>>,
    <<7151,7153>>, <<7212,7219>>, <<7222,7223>>, <<7288,7293>>, <<7376,7378>>,
    <<7380,7392>>, <<7394,7400>>, <<7405,7405>>, <<7412,7412>>, <<7416,7417>>,
    <<7468,7530>>, <<7544,7544>>, <<7579,7679>>, <<8125,8125>>, <<8127,8129>>,
    <<8141,8143>>, <<8157,8159>>, <<8173,8175>>, <<8189,8190>>, <<8203,8207>>,
    <<8216,8217>>, <<8228,8228>>, <<8231,8231>>, <<8234,8238>>, <<8288,8292>>,
    <<8294,8303>>, <<8305,8305>>, <<8319,8319>>, <<8336,8348>>, <<8400,8432>>,
    <<11388,11389>>, <<11503,11505>>, <<11631,11631>>, <<11647,11647>>, <<11744,11775>>,
    <<11823,11823>>, <<12293,12293>>, <<12330,12333>>, <<12337,12341>>, <<12347,12347>>,
    <<12441,12446>>, <<12540,12542>>, <<40981,40981>>, <<42232,42237>>, <<42508,42508>>,
    <<42607,42610>>, <<42612,42621>>, <<42623,42623>>, <<42652,42655>>, <<42736,42737>>,
    <<42752,42785>>, <<42864,42864>>, <<42888,42890>>, <<42993,42996>>, <<43000,43001>>,
    <<43010,43010>>, <<43014,43014>>, <<43019,43019>>, <<43045,43046>>, <<43052,43052>>,
    <<43204,43205>>, <<43232,43249>>, <<43263,43263>>, <<43302,43309>>, <<43335,43345>>,
    <<43392,43394>>, <<43443,43443>>, <<43446,43449>>, <<43452,43453>>, <<43471,43471>>,
    <<43493,43494>>, <<43561,43566>>, <<43569,43570>>, <<43573,43574>>, <<43587,43587>>,
    <<43596,43596>>, <<43632,43632>>, <<43644,43644>>, <<43696,43696>>, <<43698,43700>>,
    <<43703,43704>>, <<43710,43711>>, <<43713,43713>>, <<43741,43741>>, <<43756,43757>>,
    <<43763,43764>>, <<43766,43766>>, <<43867,43871>>, <<43881,43883>>, <<44005,44005>>,
    <<44008,44008>>, <<44013,44013>>, <<64286,64286>>, <<64434,64450>>, <<65024,65039>>,
    <<65043,65043>>, <<65056,65071>>, <<65106,65106>>, <<65109,65109>>, <<65279,65279>>,
    <<65287,65287>>, <<65294,65294>>, <<65306,65306>>, <<65342,65342>>, <<65344,65344>>,
    <<65392,65392>>, <<65438,65439>>, <<65507,65507>>, <<65529,65531>>, <<66045,66045>>,
    <<66272,66272>>, <<66422,66426>>, <<67456,67461>>, <<67463,67504>>, <<67506,67514>>,
    <<68097,68099>>, <<68101,68102>>, <<68108,68111>>, <<68152,68154>>, <<68159,68159>>,
    <<68325,68326>>, <<68900,68903>>, <<68942,68942>>, <<68969,68973>>, <<68975,68975>>,
    <<69291,69292>>, <<69317,69317>>, <<69370,69375>>, <<69446,69456>>, <<69506,69509>>,
    <<69633,69633>>, <<69688,69702>>, <<69744,69744>>, <<69747,69748>>, <<69759,69761>>,
    <<69811,69814>>, <<69817,69818>>, <<69821,69821>>, <<69826,69826>>, <<69837,69837>>,
    <<69888,69890>>, <<69927,69931>>, <<69933,69940>>, <<70003,70003>>, <<70016,70017>>,
    <<70070,70078>>, <<70089,70092>>, <<70095,70095>>, <<70191,70193>>, <<70196,70196>>,
    <<70198,70199>>, <<70206,70206>>, <<70209,70209>>, <<70367,70367>>, <<70371,70378>>,
    <<70400,70401>>, <<70459,70460>>, <<70464,70464>>, <<70502,70508>>, <<70512,70516>>,
    <<70587,70592>>, <<70606,70606>>, <<70608,70608>>, <<70610,70610>>, <<70625,70626>>,
    <<70712,70719>>, <<70722,70724>>, <<70726,70726>>, <<70750,70750>>, <<70835,70840>>,
    <<70842,70842>>, <<70847,70848>>, <<70850,70851>>, <<71090,71093>>, <<71100,71101>>,
    <<71103,71104>>, <<71132,71133>>, <<71219,71226>>, <<71229,71229>>, <<71231,71232>>,
    <<71339,71339>>, <<71341,71341>>, <<71344,71349>>, <<71351,71351>>, <<71453,71453>>,
    <<71455,71455>>, <<71458,71461>>, <<71463,71467>>, <<71727,71735>>, <<71737,71738>>,
    <<71995,71996>>, <<71998,71998>>, <<72003,72003>>, <<72148,72151>>, <<72154,72155>>,
    <<72160,72160>>, <<72193,72202>>, <<72243,72248>>, <<72251,72254>>, <<72263,72263>>,
    <<72273,72278>>, <<72281,72283>>, <<72330,72342>>, <<72344,72345>>, <<72544,72544>>,
    <<72546,72548>>, <<72550,72550>>, <<72752,72758>>, <<72760,72765>>, <<72767,72767>>,
    <<72850,72871>>, <<72874,72880>>, <<72882,72883>>, <<72885,72886>>, <<73009,73014>>,
    <<73018,73018>>, <<73020,73021>>, <<73023,73029>>, <<73031,73031>>, <<73104,73105>>,
    <<73109,73109>>, <<73111,73111>>, <<73177,73177>>, <<73459,73460>>, <<73472,73473>>,
    <<73526,73530>>, <<73536,73536>>, <<73538,73538>>, <<73562,73562>>, <<78896,78912>>,
    <<78919,78933>>, <<90398,90409>>, <<90413,90415>>, <<92912,92916>>, <<92976,92982>>,
    <<92992,92995>>, <<93504,93506>>, <<93547,93548>>, <<94031,94031>>, <<94095,94111>>,
    <<94176,94177>>, <<94179,94180>>, <<94194,94195>>, <<110576,110579>>, <<110581,110587>>,
    <<110589,110590>>, <<113821,113822>>, <<113824,113827>>, <<118528,118573>>, <<118576,118598>>,
    <<119143,119145>>, <<119155,119170>>, <<119173,119179>>, <<119210,119213>>, <<119362,119364>>,
    <<121344,121398>>, <<121403,121452>>, <<121461,121461>>, <<121476,121476>>, <<121499,121503>>,
    <<121505,121519>>, <<122880,122886>>, <<122888,122904>>, <<122907,122913>>, <<122915,122916>>,
    <<122918,122922>>, <<122928,122989>>, <<123023,123023>>, <<123184,123197>>, <<123566,123566>>,
    <<123628,123631>>, <<124139,124143>>, <<124398,124399>>, <<124643,124643>>, <<124646,124646>>,
    <<124654,124655>>, <<124661,124661>>, <<124671,124671>>, <<125136,125142>>, <<125252,125259>>,
    <<127995,127999>>, <<917505,917505>>, <<917536,917631>>, <<917760,917999>> >>

\* <<first, last>>: the Cased code points that are not Case_Ignorable
CasedRanges == <<
    <<65,90>>, <<97,122>>, <<170,170>>, <<181,181>>, <<186,186>>,
    <<192,214>>, <<216,246>>, <<248,442>>, <<444,447>>, <<452,659>>,
    <<662,687>>, <<880,883>>, <<886,887>>, <<891,893>>, <<895,895>>,
    <<902,902>>, <<904,906>>, <<908,908>>, <<910,929>>, <<931,1013>>,
    <<1015,1153>>, <<1162,1327>>, <<1329,1366>>, <<1376,1416>>, <<4256,4293>>,
    <<4295,4295>>, <<4301,4301>>, <<4304,4346>>, <<4349,4351>>, <<5024,5109>>,
    <<5112,5117>>, <<7296,7306>>, <<7312,7354>>, <<7357,7359>>, <<7424,7467>>,
    <<7531,7543>>, <<7545,7578>>, <<7680,7957>>, <<7960,7965>>, <<7968,8005>>,
    <<8008,8013>>, <<8016,8023>>, <<8025,8025>>, <<8027,8027>>, <<8029,8029>>,
    <<8031,8061>>, <<8064,8116>>, <<8118,8124>>, <<8126,8126>>, <<8130,8132>>,
    <<8134,8140>>, <<8144,8147>>, <<8150,8155>>, <<8160,8172>>, <<8178,8180>>,
    <<8182,8188>>, <<8450,8450>>, <<8455,8455>>, <<8458,8467>>, <<8469,8469>>,
    <<8473,8477>>, <<8484,8484>>, <<8486,8486>>, <<8488,8488>>, <<8490,8493>>,
    <<8495,8500>>, <<8505,8505>>, <<8508,8511>>, <<8517,8521>>, <<8526,8526>>,
    <<8544,8575>>, <<8579,8580>>, <<9398,9449>>, <<11264,11387>>, <<11390,11492>>,
    <<11499,11502>>, <<11506,11507>>, <<11520,11557>>, <<11559,11559>>, <<11565,11565>>,
    <<42560,42605>>, <<42624,42651>>, <<42786,42863>>, <<42865,42887>>, <<42891,42894>>,
    <<42896,42972>>, <<42997,42998>>, <<43002,43002>>, <<43824,43866>>, <<43872,43880>>,
    <<43888,43967>>, <<64256,64262>>, <<64275,64279>>, <<65313,65338>>, <<65345,65370>>,
    <<66560,66639>>, <<66736,66771>>, <<66776,66811>>, <<66928,66938>>, <<66940,66954>>,
    <<66956,66962>>, <<66964,66965>>, <<66967,66977>>, <<66979,66993>>, <<66995,67001>>,
    <<67003,67004>>, <<68736,68786>>, <<68800,68850>>, <<68944,68965>>, <<68976,68997>>,
    <<71840,71903>>, <<93760,93823>>, <<93856,93880>>, <<93883,93907>>, <<119808,119892>>,
    <<119894,119964>>, <<119966,119967>>, <<119970,119970>>, <<119973,119974>>, <<119977,119980>>,
    <<119982,119993>>, <<119995,119995>>, <<119997,120003>>, <<120005,120069>>, <<120071,120074>>,
    <<120077,120084>>, <<120086,120092>>, <<120094,120121>>, <<120123,120126>>, <<120128,120132>>,
    <<120134,120134>>, <<120138,120144>>, <<120146,120485>>, <<120488,120512>>, <<120514,120538>>,
    <<120540,120570>>, <<120572,120596>>, <<120598,120628>>, <<120630,120654>>, <<120656,120686>>,
    <<120688,120712>>, <<120714,120744>>, <<120746,120770>>, <<120772,120779>>, <<122624,122633>>,
    <<122635,122654>>, <<122661,122666>>, <<125184,125251>>, <<127280,127305>>, <<127312,127337>>,
    <<127344,127369>> >>

inRanges(cp, ranges) ==
    \E i \in 1..Len(ranges) : ranges[i][1] <= cp /\ cp <= ranges[i][2]

isCaseIgnorable(cp) == inRanges(cp, CaseIgnorableRanges)

isCased(cp) == inRanges(cp, CasedRanges)

\* the entries of LowerCaseRanges below U+0100
Latin1LowerCaseRanges == SubSeq(LowerCaseRanges, 1, 3)

\* the lower case mapping of one code point, a sequence of code points:
\* U+0130 becomes U+0069 U+0307
lowerCodePoint(cp) ==
    LET ranges == IF cp < 256 THEN Latin1LowerCaseRanges ELSE LowerCaseRanges
        hit(i) == /\ ranges[i][1] <= cp
                  /\ cp <= ranges[i][2]
                  /\ (cp - ranges[i][1]) % ranges[i][3] = 0
    IN  IF cp = 304 THEN <<105, 775>>
        ELSE IF \E i \in 1..Len(ranges) : hit(i)
        THEN <<cp + ranges[CHOOSE i \in 1..Len(ranges) : hit(i)][4]>>
        ELSE <<cp>>

isHighSurrogate(u) == 55296 <= u /\ u <= 56319
isLowSurrogate(u) == 56320 <= u /\ u <= 57343

RECURSIVE codePointsFrom(_, _)
\* the code points of the code units s[i], s[i+1], ...; a surrogate that
\* is not part of a pair stands for itself
codePointsFrom(s, i) ==
    IF i > Len(s) THEN <<>>
    ELSE IF isHighSurrogate(s[i]) /\ i < Len(s) /\ isLowSurrogate(s[i + 1])
         THEN <<65536 + (s[i] - 55296) * 1024 + (s[i + 1] - 56320)>>
                  \o codePointsFrom(s, i + 2)
         ELSE <<s[i]>> \o codePointsFrom(s, i + 1)

RECURSIVE codeUnits(_)
\* the UTF-16 code units of a sequence of code points
codeUnits(cps) ==
    IF cps = <<>> THEN <<>>
    ELSE IF Head(cps) >= 65536
         THEN <<55296 + ((Head(cps) - 65536) \div 1024),
                56320 + ((Head(cps) - 65536) % 1024)>> \o codeUnits(Tail(cps))
         ELSE <<Head(cps)>> \o codeUnits(Tail(cps))

RECURSIVE casedBefore(_, _)
\* a cased letter precedes position j + 1, case-ignorable ones skipped
casedBefore(cps, j) ==
    IF j < 1 THEN FALSE
    ELSE IF isCaseIgnorable(cps[j]) THEN casedBefore(cps, j - 1)
    ELSE isCased(cps[j])

RECURSIVE casedAfter(_, _)
\* a cased letter follows position j - 1, case-ignorable ones skipped
casedAfter(cps, j) ==
    IF j > Len(cps) THEN FALSE
    ELSE IF isCaseIgnorable(cps[j]) THEN casedAfter(cps, j + 1)
    ELSE isCased(cps[j])

\* the lower case of the code point at position i: U+03A3 becomes the
\* final sigma U+03C2 at the end of a word
lowerAt(cps, i) ==
    IF cps[i] = 931
    THEN IF casedBefore(cps, i - 1) /\ ~casedAfter(cps, i + 1)
         THEN <<962>> ELSE <<963>>
    ELSE lowerCodePoint(cps[i])

RECURSIVE lowerFrom(_, _)
lowerFrom(cps, i) ==
    IF i > Len(cps) THEN <<>> ELSE lowerAt(cps, i) \o lowerFrom(cps, i + 1)

\* String.prototype.toLowerCase
toLowerCase(s) == codeUnits(lowerFrom(codePointsFrom(s, 1), 1))

\* String.prototype.includes
includes(s, sub) ==
    \E i \in 0..(Len(s) - Len(sub)) : SubSeq(s, i + 1, i + Len(sub)) = sub

\* WhiteSpace and LineTerminator code units, which trim strips
WhiteSpace ==
    {9, 10, 11, 12, 13, 32, 160, 5760, 8232, 8233, 8239, 8287, 12288, 65279}
        \cup 8192..8202

RECURSIVE trimStart(_)
trimStart(s) ==
    IF s # <<>> /\ Head(s) \in WhiteSpace THEN trimStart(Tail(s)) ELSE s

RECURSIVE trimEnd(_)
trimEnd(s) ==
    IF s # <<>> /\ s[Len(s)] \in WhiteSpace
    THEN trimEnd(SubSeq(s, 1, Len(s) - 1)) ELSE s

\* String.prototype.trim
trim(s) == trimEnd(trimStart(s))

\* Array.prototype.slice(start), start possibly negative
slice(a, start) ==
    LET n == Len(a)
        from == IF start < 0 THEN Max(n + start, 0) ELSE Min(start, n)
    IN  SubSeq(a, from + 1, n)

\* a[0]: undefined on an empty array
first(a) == IF a = <<>> THEN Undefined ELSE a[1]

\* v || '' : undefined and the empty string are falsy
orEmpty(v) == IF v = Undefined \/ v = <<>> THEN <<>> ELSE v

RECURSIVE join(_, _)
\* Array.prototype.join(sep)
join(a, sep) ==
    IF a = <<>> THEN <<>>
    ELSE IF Len(a) = 1 THEN a[1]
    ELSE a[1] \o sep \o join(Tail(a), sep)

\* ${v} in a template literal
templateStr(v) ==
    IF v = Undefined
    THEN <<117, 110, 100, 101, 102, 105, 110, 101, 100>>  \* "undefined"
    ELSE v

----------------------------------------------------------------------------
(* /autocomplete: the transform, lines 116-170 *)

\* the object built by the parse map, lines 121-130
parse(terms) ==
    [ name       |-> first(terms),
      city       |-> orEmpty(first(slice(terms, -3))),
      state      |-> orEmpty(first(slice(terms, -2))),
      country    |-> orEmpty(first(slice(terms, -1))),
      address    |-> join(slice(terms, 1), <<44, 32>>),
      exactMatch |-> "null" ]

\* the filter with inputLower compared against the fields as received
keepsCaseSensitive(place, inputLower) ==
    \/ includes(place.city, inputLower)
    \/ includes(place.state, inputLower)
    \/ includes(place.country, inputLower)

\* the filter callback, lines 136-143
keeps(place, inputLower) ==
    \/ includes(toLowerCase(place.city), inputLower)
    \/ includes(toLowerCase(place.state), inputLower)
    \/ includes(toLowerCase(place.country), inputLower)

\* the annotation with the fields compared in sort-priority order
exactMatchCityFirst(place, inputLower) ==
    IF toLowerCase(place.city) = inputLower THEN "city"
    ELSE IF toLowerCase(place.state) = inputLower THEN "state"
    ELSE IF toLowerCase(place.country) = inputLower THEN "country"
    ELSE place.exactMatch

\* the exactMatch assigned by the map callback, lines 144-154
exactMatchOf(place, inputLower) ==
    IF toLowerCase(place.country) = inputLower THEN "country"
    ELSE IF toLowerCase(place.state) = inputLower THEN "state"
    ELSE IF toLowerCase(place.city) = inputLower THEN "city"
    ELSE place.exactMatch

annotate(place, inputLower) ==
    [place EXCEPT !.exactMatch = exactMatchOf(place, inputLower)]

\* priorityOrder, line 157
priorityOrder(exactMatch) ==
    CASE exactMatch = "city"    -> 3
      [] exactMatch = "state"   -> 2
      [] exactMatch = "country" -> 1
      [] OTHER                  -> 0

\* the comparator with a and b exchanged
compareAscending(a, b) == priorityOrder(a.exactMatch) - priorityOrder(b.exactMatch)

\* the sort comparator, line 158: negative when a goes first
compare(a, b) == priorityOrder(b.exactMatch) - priorityOrder(a.exactMatch)

RECURSIVE insertSorted(_, _)
\* x is placed behind every element that does not compare greater than it
insertSorted(sorted, x) ==
    IF sorted = <<>> THEN <<x>>
    ELSE IF compare(Head(sorted), x) <= 0
         THEN <<Head(sorted)>> \o insertSorted(Tail(sorted), x)
         ELSE <<x>> \o sorted

RECURSIVE sort(_)
\* Array.prototype.sort with the comparator of line 158 (stable, ES2019)
sort(a) ==
    IF a = <<>> THEN <<>>
    ELSE insertSorted(sort(SubSeq(a, 1, Len(a) - 1)), a[Len(a)])

\* the dedupe key, line 165
key(place) == templateStr(place.name) \o <<124>> \o place.address

RECURSIVE dedupeFrom(_, _, _)
\* the loop of lines 164-170 over `rest`, with uniqueResults and seen so far
dedupeFrom(rest, unique, seen) ==
    IF rest = <<>> THEN unique
    ELSE IF key(Head(rest)) \notin seen
         THEN dedupeFrom(Tail(rest), Append(unique, Head(rest)),
                         seen \cup {key(Head(rest))})
         ELSE dedupeFrom(Tail(rest), unique, seen)

dedupe(results) == dedupeFrom(results, <<>>, {})

\* the validation without the trim
inputCheckNoTrim(type, in) ==
    IF type = "undefined" THEN "rejected"
    ELSE IF type = "string" /\ in = <<>> THEN "rejected"
    ELSE "accepted"

\* the validation of line 89: !input || input.trim() === ''.  An absent
\* parameter and the empty string are falsy; an array (typeof "object") is
\* truthy and has no trim method, so the call throws a TypeError
inputCheck(type, in) ==
    IF type = "undefined" THEN "rejected"
    ELSE IF type = "string" /\ in = <<>> THEN "rejected"
    ELSE IF type # "string" THEN "throws"
    ELSE IF trim(in) = <<>> THEN "rejected"
    ELSE "accepted"

\* the status check looking for one failure status only
statusDenied(data) == data.status = "REQUEST_DENIED"

\* the status check of line 108
statusNotOk(data) == data.status # "OK"

\* the extraction tolerating a prediction without `terms`
extractNeverThrows(data) == FALSE

\* line 117-119 throws a TypeError on a prediction without `terms`
extractThrows(data) ==
    \E i \in 1..Len(data.predictions) : ~data.predictions[i].hasTerms

Response(status, error, data) ==
    [status |-> status, error |-> error, data |-> data]

----------------------------------------------------------------------------
(* /find-place and /place-details, lines 19-82 and 181-244 *)

DefaultQuery == "Museum of Contemporary Art Australia"

\* req.query.query || default, lines 22 and 184: the absent parameter and
\* the empty string are falsy, every other string and every array is kept
effectiveQuery(type, q) ==
    IF type = "undefined" THEN DefaultQuery
    ELSE IF type = "string" /\ q = "" THEN DefaultQuery
    ELSE q

\* the check without the candidates tests
placeNotFoundStatusOnly(data) == data.status # "OK"

\* the check of lines 37-41 and 199-203
placeNotFound(data) ==
    \/ data.status # "OK"
    \/ ~data.hasCandidates
    \/ Len(data.candidates) = 0

\* the error text of the catch block, lines 80 and 242
catchError(ep) ==
    IF ep = "find-place" THEN "Failed to fetch place information"
    ELSE "Internal server error"

\* the body of the successful response, lines 76 and 238
detailsBody(ep, data) == IF ep = "find-place" THEN <<data>> ELSE <<data.result>>

----------------------------------------------------------------------------
(* The handlers *)

Init ==
    /\ pc = "idle"
    /\ endpoint = "none"
    /\ input = Undefined
    /\ inputType = "undefined"
    /\ query = ""
    /\ googleResponse = [status |-> "none", predictions |-> <<>>]
    /\ predictions = <<>>
    /\ placeSuggestions = <<>>
    /\ chain = <<>>
    /\ filteredResults = <<>>
    /\ uniqueResults = <<>>
    /\ findPlaceResponse = [status |-> "none", hasCandidates |-> FALSE, candidates |-> <<>>]
    /\ upstreamCalls = <<>>
    /\ responses = <<>>
    /\ stages = <<>>

acVars == <<googleResponse, predictions, placeSuggestions, chain,
            filteredResults, uniqueResults>>

\* the values req.query.input takes, with their typeof
QueryInputs ==
    [type : {"string"}, value : ValidInputs \cup BlankInputs]
        \cup [type : {"undefined"}, value : {Undefined}]

\* lines 85-105: validation, then the autocomplete call is issued; a throw
\* of the validation is caught at lines 174-177
AcRequestWith(type, in) ==
    /\ pc = "idle"
    /\ input' = in
    /\ inputType' = type
    /\ endpoint' = "autocomplete"
    /\ IF inputCheck(type, in) = "rejected"
       THEN /\ responses' = Append(responses,
                   Response(400, "Input parameter is required", <<>>))
            /\ pc' = "done"
            /\ UNCHANGED upstreamCalls
       ELSE IF inputCheck(type, in) = "throws"
       THEN /\ responses' = Append(responses,
                   Response(500, "Internal server error", <<>>))
            /\ pc' = "done"
            /\ UNCHANGED upstreamCalls
       ELSE /\ upstreamCalls' = Append(upstreamCalls,
                   [api |-> "autocomplete", param |-> in])
            /\ pc' = "awaitAutocomplete"
            /\ UNCHANGED responses
    /\ UNCHANGED <<query, acVars, findPlaceResponse, stages>>

AcRequest ==
    \/ \E q \in QueryInputs : AcRequestWith(q.type, q.value)
    \/ \E in \in ArrayInputs : AcRequestWith("object", in)

\* the awaited axios.get rejects: catch block, lines 174-177
AcTransportFailure ==
    /\ pc = "awaitAutocomplete"
    /\ responses' = Append(responses, Response(500, "Internal server error", <<>>))
    /\ pc' = "done"
    /\ UNCHANGED <<endpoint, input, inputType, query, acVars, findPlaceResponse,
                   upstreamCalls, stages>>

\* the awaited axios.get resolves: lines 107-119
AcReply ==
    /\ pc = "awaitAutocomplete"
    /\ \E data \in AutocompleteReplies :
         /\ googleResponse' = data
         /\ IF statusNotOk(data)
            THEN /\ responses' = Append(responses,
                        Response(500, "Failed to fetch autocomplete suggestions",
                                 <<data>>))
                 /\ pc' = "done"
                 /\ UNCHANGED <<predictions, stages>>
            ELSE IF extractThrows(data)
            THEN /\ responses' = Append(responses,
                        Response(500, "Internal server error", <<>>))
                 /\ pc' = "done"
                 /\ UNCHANGED <<predictions, stages>>
            ELSE /\ predictions' = [i \in 1..Len(data.predictions) |->
                                        data.predictions[i].terms]
                 /\ pc' = "parse"
                 /\ stages' = Append(stages, "extract")
                 /\ UNCHANGED responses
    /\ UNCHANGED <<endpoint, input, inputType, query, placeSuggestions, chain,
                   filteredResults, uniqueResults, findPlaceResponse,
                   upstreamCalls>>

\* lines 121-130
AcParse ==
    /\ pc = "parse"
    /\ placeSuggestions' = [i \in 1..Len(predictions) |-> parse(predictions[i])]
    /\ stages' = Append(stages, "parse")
    /\ pc' = "filter"
    /\ UNCHANGED <<endpoint, input, inputType, query, googleResponse, predictions, chain,
                   filteredResults, uniqueResults, findPlaceResponse,
                   upstreamCalls, responses>>

\* lines 133-143
AcFilter ==
    /\ pc = "filter"
    /\ chain' = SelectSeq(placeSuggestions,
                          LAMBDA place : keeps(place, toLowerCase(input)))
    /\ stages' = Append(stages, "filter")
    /\ pc' = "annotate"
    /\ UNCHANGED <<endpoint, input, inputType, query, googleResponse, predictions,
                   placeSuggestions, filteredResults, uniqueResults,
                   findPlaceResponse, upstreamCalls, responses>>

\* lines 144-154; the callback assigns to the objects placeSuggestions holds
AcAnnotate ==
    /\ pc = "annotate"
    /\ chain' = [i \in 1..Len(chain) |-> annotate(chain[i], toLowerCase(input))]
    /\ placeSuggestions' = [i \in 1..Len(placeSuggestions) |->
            IF keeps(placeSuggestions[i], toLowerCase(input))
            THEN annotate(placeSuggestions[i], toLowerCase(input))
            ELSE placeSuggestions[i]]
    /\ stages' = Append(stages, "annotate")
    /\ pc' = "sort"
    /\ UNCHANGED <<endpoint, input, inputType, query, googleResponse, predictions,
                   filteredResults, uniqueResults, findPlaceResponse,
                   upstreamCalls, responses>>

\* lines 155-159: sort orders the array the map returned in place and
\* returns that array
AcSort ==
    /\ pc = "sort"
    /\ chain' = sort(chain)
    /\ filteredResults' = sort(chain)
    /\ stages' = Append(stages, "sort")
    /\ pc' = "dedupe"
    /\ UNCHANGED <<endpoint, input, inputType, query, googleResponse, predictions,
                   placeSuggestions, uniqueResults, findPlaceResponse,
                   upstreamCalls, responses>>

\* lines 161-170
AcDedupe ==
    /\ pc = "dedupe"
    /\ uniqueResults' = dedupe(filteredResults)
    /\ stages' = Append(stages, "dedupe")
    /\ pc' = "respond"
    /\ UNCHANGED <<endpoint, input, inputType, query, googleResponse, predictions,
                   placeSuggestions, chain, filteredResults, findPlaceResponse,
                   upstreamCalls, responses>>

\* line 173
AcRespond ==
    /\ pc = "respond"
    /\ responses' = Append(responses, Response(200, "none", uniqueResults))
    /\ pc' = "done"
    /\ UNCHANGED <<endpoint, input, inputType, query, acVars, findPlaceResponse,
                   upstreamCalls, stages>>

\* lines 19-35 and 181-197: the find-by-text call is issued
FpRequestWith(ep, type, q) ==
    /\ pc = "idle"
    /\ endpoint' = ep
    /\ query' = effectiveQuery(type, q)
    /\ upstreamCalls' = Append(upstreamCalls,
           [api |-> "findplacefromtext", param |-> effectiveQuery(type, q)])
    /\ pc' = "awaitFindPlace"
    /\ UNCHANGED <<input, inputType, acVars, findPlaceResponse, responses, stages>>

FpRequest ==
    \/ \E ep \in {"find-place", "place-details"}, q \in Queries :
           FpRequestWith(ep, q.type, q.value)
    \/ \E ep \in {"find-place", "place-details"}, q \in ArrayQueries :
           FpRequestWith(ep, "object", q)

\* either awaited axios.get rejects: catch block, lines 77-81 and 239-243
FpTransportFailure ==
    /\ pc \in {"awaitFindPlace", "awaitDetails"}
    /\ responses' = Append(responses, Response(500, catchError(endpoint), <<>>))
    /\ pc' = "done"
    /\ UNCHANGED <<endpoint, input, inputType, query, acVars, findPlaceResponse,
                   upstreamCalls, stages>>

\* the find-by-text call resolves: lines 37-68 and 199-230
FpFindReply ==
    /\ pc = "awaitFindPlace"
    /\ \E data \in FindPlaceReplies :
         /\ findPlaceResponse' = data
         /\ IF placeNotFound(data)
            THEN /\ responses' = Append(responses,
                        Response(404, "Place not found", <<>>))
                 /\ pc' = "done"
                 /\ UNCHANGED upstreamCalls
            ELSE IF data.candidates = <<>>
            THEN \* candidates[0].place_id throws a TypeError
                 /\ responses' = Append(responses,
                        Response(500, catchError(endpoint), <<>>))
                 /\ pc' = "done"
                 /\ UNCHANGED upstreamCalls
            ELSE /\ upstreamCalls' = Append(upstreamCalls,
                        [api |-> "details", param |-> data.candidates[1].place_id])
                 /\ pc' = "awaitDetails"
                 /\ UNCHANGED responses
    /\ UNCHANGED <<endpoint, input, inputType, query, acVars, stages>>

\* the details call resolves: lines 70-76 and 232-238
FpDetailsReply ==
    /\ pc = "awaitDetails"
    /\ \E data \in PlaceDetailsReplies :
         responses' = Append(responses,
            IF data.status # "OK"
            THEN Response(500, "Failed to fetch place details", <<>>)
            ELSE Response(200, "none", detailsBody(endpoint, data)))
    /\ pc' = "done"
    /\ UNCHANGED <<endpoint, input, inputType, query, acVars, findPlaceResponse,
                   upstreamCalls, stages>>

Next ==
    \/ AcRequest
    \/ AcTransportFailure
    \/ AcReply
    \/ AcParse
    \/ AcFilter
    \/ AcAnnotate
    \/ AcSort
    \/ AcDedupe
    \/ AcRespond
    \/ FpRequest
    \/ FpTransportFailure
    \/ FpFindReply
    \/ FpDetailsReply

Spec == Init /\ [][Next]_vars

----------------------------------------------------------------------------
(* Properties *)

\* the fields of a suggestion other than exactMatch
core(place) == <<place.name, place.address, place.city, place.state, place.country>>

\* the lower case of `in` occurs in the lower case of `field`
ContainsCI(field, in) ==
    LET f == toLowerCase(field)
        n == toLowerCase(in)
    IN  \E k \in 1..(Len(f) - Len(n) + 1) :
            \A m \in 1..Len(n) : f[k + m - 1] = n[m]

\* `field` and `in` have the same lower case
EqualsCI(field, in) ==
    LET f == toLowerCase(field)
        n == toLowerCase(in)
    IN  /\ Len(f) = Len(n)
        /\ \A m \in 1..Len(n) : f[m] = n[m]

MatchesInput(place) ==
    \/ ContainsCI(place.city, input)
    \/ ContainsCI(place.state, input)
    \/ ContainsCI(place.country, input)

Weight(place) ==
    CASE place.exactMatch = "city"    -> 3
      [] place.exactMatch = "state"   -> 2
      [] place.exactMatch = "country" -> 1
      [] place.exactMatch = "null"    -> 0

StageDone(stage) == \E k \in 1..Len(stages) : stages[k] = stage

\* a 200 response of /autocomplete has been sent
AcSucceeded ==
    /\ endpoint = "autocomplete"
    /\ Len(responses) = 1
    /\ responses[1].status = 200

\* position in the upstream response of the prediction a suggestion came from
Origin(place) ==
    CHOOSE k \in 1..Len(placeSuggestions) :
        /\ placeSuggestions[k] = place
        /\ \A j \in 1..(k - 1) : placeSuggestions[j] # place

\* C1: every parsed suggestion has city = third-from-last term when there
\* are at least 3 terms and "" otherwise, state = second-from-last term when
\* there are at least 2 terms and "" otherwise, country = last term when
\* there is at least 1 term and "" otherwise.
C1_PositionalFields ==
    StageDone("parse") =>
        \A i \in 1..Len(placeSuggestions) :
            LET t == predictions[i]
                n == Len(t)
            IN  /\ placeSuggestions[i].city = (IF n >= 3 THEN t[n - 2] ELSE <<>>)
                /\ placeSuggestions[i].state = (IF n >= 2 THEN t[n - 1] ELSE <<>>)
                /\ placeSuggestions[i].country = (IF n >= 1 THEN t[n] ELSE <<>>)

\* C2: a prediction whose term sequence is empty is parsed to a suggestion
\* whose name, address, city, state and country are all the empty string.
C2_EmptyTermsAllEmpty ==
    StageDone("parse") =>
        \A i \in 1..Len(placeSuggestions) :
            predictions[i] = <<>> =>
                /\ placeSuggestions[i].name = <<>>
                /\ placeSuggestions[i].address = <<>>
                /\ placeSuggestions[i].city = <<>>
                /\ placeSuggestions[i].state = <<>>
                /\ placeSuggestions[i].country = <<>>

\* C3: a suggestion of the sorted list is dropped by the deduplication iff
\* an earlier suggestion of that list has the same name and the same
\* address; the output is the sorted list restricted to the first
\* occurrence of each (name, address) pair.
C3_DedupeByPair ==
    StageDone("dedupe") =>
        LET FirstOfPair(i) ==
                \A j \in 1..(i - 1) :
                    \/ filteredResults[j].name # filteredResults[i].name
                    \/ filteredResults[j].address # filteredResults[i].address
            kept == { i \in 1..Len(filteredResults) : FirstOfPair(i) }
        IN  /\ Len(uniqueResults) = Cardinality(kept)
            /\ \A i \in kept :
                   \E k \in 1..Len(uniqueResults) :
                       uniqueResults[k] = filteredResults[i]

\* C4: a parsed suggestion survives the filter iff the lowercased input is
\* a substring of its lowercased city, state or country; every suggestion
\* in the response satisfies that, and none has all three fields empty.
C4_FilterBySubstring ==
    /\ StageDone("filter") =>
           LET matching == { i \in 1..Len(placeSuggestions) :
                                 MatchesInput(placeSuggestions[i]) }
           IN  /\ Len(chain) = Cardinality(matching)
               /\ \A i \in 1..Len(placeSuggestions) :
                      (i \in matching) <=>
                          \E k \in 1..Len(chain) :
                              core(chain[k]) = core(placeSuggestions[i])
    /\ AcSucceeded =>
           \A k \in 1..Len(responses[1].data) :
               LET place == responses[1].data[k]
               IN  /\ MatchesInput(place)
                   /\ ~(place.city = <<>> /\ place.state = <<>> /\ place.country = <<>>)

\* C4 witness: a response was sent in which one prediction was returned
\* and another, with non-empty fields, was filtered out.
C4_Witness ==
    /\ AcSucceeded
    /\ Len(responses[1].data) >= 1
    /\ \E i \in 1..Len(placeSuggestions) :
           /\ placeSuggestions[i].country # <<>>
           /\ ~MatchesInput(placeSuggestions[i])
    /\ \E i \in 1..Len(placeSuggestions) :
           /\ MatchesInput(placeSuggestions[i])
           /\ ~(placeSuggestions[i].country \in {input, toLowerCase(input)})

\* C5: every suggestion that survives the filter has exactMatch 'country'
\* if the input equals its country ignoring case, else 'state' if it equals
\* its state, else 'city' if it equals its city, else null.
C5_AnnotateCountryFirst ==
    StageDone("annotate") =>
        \A k \in 1..Len(chain) :
            chain[k].exactMatch =
                (IF EqualsCI(chain[k].country, input) THEN "country"
                 ELSE IF EqualsCI(chain[k].state, input) THEN "state"
                 ELSE IF EqualsCI(chain[k].city, input) THEN "city"
                 ELSE "null")

\* C5 witness: an annotated suggestion whose country and city both equal
\* the input ignoring case, while its state does not.
C5_Witness ==
    /\ StageDone("annotate")
    /\ \E k \in 1..Len(chain) :
           /\ EqualsCI(chain[k].country, input)
           /\ EqualsCI(chain[k].city, input)
           /\ ~EqualsCI(chain[k].state, input)
           /\ chain[k].city # input
           /\ chain[k].exactMatch = "country"

\* C6: the suggestions of the response are in non-increasing order of the
\* weight city=3, state=2, country=1, null=0, and two of the same weight are
\* in the order their predictions had in the upstream response.
C6_SortedStable ==
    AcSucceeded =>
        LET data == responses[1].data
        IN  \A i, j \in 1..Len(data) :
                i < j =>
                    /\ Weight(data[i]) >= Weight(data[j])
                    /\ Weight(data[i]) = Weight(data[j]) =>
                           Origin(data[i]) < Origin(data[j])

\* C6 witness: a response of two suggestions of different weights whose
\* predictions arrived in the opposite order.
C6_Witness ==
    /\ AcSucceeded
    /\ Len(responses[1].data) = 2
    /\ Weight(responses[1].data[1]) = 3
    /\ Weight(responses[1].data[2]) = 0
    /\ Origin(responses[1].data[1]) > Origin(responses[1].data[2])

\* the input parameter is missing, or holds white space only
InputBlank ==
    \/ inputType = "undefined"
    \/ inputType = "string" /\ \A i \in 1..Len(input) : input[i] \in WhiteSpace

\* C7: an /autocomplete request whose input is missing or blank after
\* trimming is answered 400, with no upstream call and no transform stage;
\* no transform stage ever runs with an empty input.
C7_BlankInputRejected ==
    /\ (endpoint = "autocomplete" /\ InputBlank) =>
           /\ pc = "done"
           /\ Len(responses) = 1
           /\ responses[1].status = 400
           /\ upstreamCalls = <<>>
           /\ stages = <<>>
    /\ stages # <<>> => (inputType = "string" /\ input # <<>>)

\* C7 witness: a request whose input is a no-break space and a form feed
\* has been answered.
C7_Witness ==
    /\ endpoint = "autocomplete"
    /\ inputType = "string"
    /\ input = <<160, 12>>
    /\ pc = "done"
    /\ responses[1].status = 400

\* the autocomplete call was issued and failed: a reply with a status other
\* than 'OK', or no reply at all (transport failure)
AcUpstreamFailed ==
    /\ endpoint = "autocomplete"
    /\ pc = "done"
    /\ upstreamCalls # <<>>
    /\ googleResponse.status # "OK"

\* C8: when the autocomplete call returns a status other than 'OK' or fails
\* in transport, the caller receives a 500, no transform stage runs and the
\* upstream service was called exactly once.
C8_UpstreamFailure ==
    /\ AcUpstreamFailed =>
           /\ Len(responses) = 1
           /\ responses[1].status = 500
           /\ stages = <<>>
           /\ Len(upstreamCalls) = 1
    /\ endpoint = "autocomplete" => Len(upstreamCalls) <= 1

\* C8 witness: the upstream service answered ZERO_RESULTS and the request
\* has ended.
C8_Witness ==
    /\ AcUpstreamFailed
    /\ googleResponse.status = "ZERO_RESULTS"
    /\ responses[1].status = 500

AllStages == <<"extract", "parse", "filter", "annotate", "sort", "dedupe">>

\* an 'OK' reply holding a prediction without a terms sequence was received
AcReplyMalformed ==
    /\ endpoint = "autocomplete"
    /\ googleResponse.status = "OK"
    /\ \E i \in 1..Len(googleResponse.predictions) :
           ~googleResponse.predictions[i].hasTerms

\* C9: when the transform throws (a prediction without terms), the caller
\* receives exactly one response, a 500 carrying no suggestions; a 200 with
\* the suggestion list is sent only after all stages have completed.
C9_TransformException ==
    endpoint = "autocomplete" =>
        /\ Len(responses) <= 1
        /\ AcReplyMalformed =>
               /\ pc = "done"
               /\ Len(responses) = 1
               /\ responses[1].status = 500
               /\ responses[1].data = <<>>
        /\ \A k \in 1..Len(responses) :
               responses[k].status = 200 =>
                   /\ stages = AllStages
                   /\ responses[k].data = uniqueResults

\* C9 witness: a reply whose second prediction has no terms, after a first
\* one that has, was answered.
C9_Witness ==
    /\ AcReplyMalformed
    /\ Len(googleResponse.predictions) = 2
    /\ googleResponse.predictions[1].hasTerms
    /\ googleResponse.predictions[1].terms # <<>>
    /\ responses[1].status = 500

FpEndpoint == endpoint \in {"find-place", "place-details"}

\* the find-by-text reply has been received
FpFindReplied == FpEndpoint /\ findPlaceResponse.status # "none"

\* C10: on /find-place and /place-details the details call is issued only
\* after a find-by-text reply of status 'OK' with at least one candidate,
\* with the first candidate's place id; otherwise the request ends with a
\* 404 and no details call; at most two upstream calls are made and exactly
\* one response is sent.
C10_ChainedCalls ==
    FpEndpoint =>
        /\ \A k \in 1..Len(upstreamCalls) :
               upstreamCalls[k].api = "details" =>
                   /\ k = 2
                   /\ upstreamCalls[1].api = "findplacefromtext"
                   /\ findPlaceResponse.status = "OK"
                   /\ findPlaceResponse.hasCandidates
                   /\ Len(findPlaceResponse.candidates) >= 1
                   /\ upstreamCalls[k].param = findPlaceResponse.candidates[1].place_id
        /\ ( /\ FpFindReplied
             /\ \/ findPlaceResponse.status # "OK"
                \/ ~findPlaceResponse.hasCandidates
                \/ findPlaceResponse.candidates = <<>> ) =>
               /\ pc = "done"
               /\ Len(responses) = 1
               /\ responses[1].status = 404
               /\ Len(upstreamCalls) = 1
        /\ Len(upstreamCalls) <= 2
        /\ Len(responses) <= 1
        /\ pc = "done" <=> Len(responses) = 1

\* C10 witness: a find-by-text reply with two different candidates led to
\* a details call for the first and a 200 response.
C10_Witness ==
    /\ FpEndpoint
    /\ pc = "done"
    /\ Len(findPlaceResponse.candidates) = 2
    /\ findPlaceResponse.candidates[1] # findPlaceResponse.candidates[2]
    /\ Len(upstreamCalls) = 2
    /\ upstreamCalls[2].param = findPlaceResponse.candidates[1].place_id
    /\ responses[1].status = 200

====
